---- MODULE Spec2Model ----
(***************************************************************************)
(* The follow-up answering pipeline of AskMyNotes (handleQaFollowup and    *)
(* the Groq client it calls), as a state machine of one request.           *)
(*                                                                         *)
(* Texts are sequences of tokens: a token is a maximal run of letters and  *)
(* digits (a word), one punctuation character, or one whitespace           *)
(* character.  JSON values are tagged records.                             *)
(***************************************************************************)
EXTENDS Integers, Sequences, FiniteSets, TLC

\* ---------------------------------------------------------------- bounds
MaxLast == 2        \* length of context.last_chunk_ids
MaxMatches == 2     \* rows returned by match_chunks
MaxCitations == 2   \* entries of the model's citations array
MaxUsed == 2        \* entries of the model's used_chunk_ids array
MaxFenced == 1      \* array entries of a document wrapped in code fences
MaxSentences == 4   \* sentences of a chunk handed to the extractor alone
MaxUtterances == 4  \* utterances created by speak
MaxRequests == 2    \* /qa and /qa/followup requests issued by the page

\* ------------------------------------------------------ program constants
match_count == 3
TopExtracts == 8

\* ------------------------------------------------------------- utilities
Min(a, b) == IF a < b THEN a ELSE b

SeqsUpTo(S, n) == UNION {[1..k -> S] : k \in 0..n}

SeqToSet(s) == {s[i] : i \in 1..Len(s)}

\* Array.from(new Set(xs)): first occurrences, in order.
RECURSIVE Dedup(_)
Dedup(xs) ==
  IF xs = <<>> THEN <<>>
  ELSE LET init == Dedup(SubSeq(xs, 1, Len(xs) - 1))
           last == xs[Len(xs)]
       IN IF last \in SeqToSet(init) THEN init ELSE Append(init, last)

\* ------------------------------------------------------------ JSON values
Undefined == [t |-> "undefined"]
Null == [t |-> "null"]
Bool(b) == [t |-> "bool", b |-> b]
Num(n) == [t |-> "num", n |-> n]
Str(s) == [t |-> "str", s |-> s]
Arr(items) == [t |-> "arr", items |-> items]
Obj(f) == [t |-> "obj", f |-> f]

\* v.k in JavaScript, for v neither null nor undefined.
Get(v, k) == IF v.t = "obj" /\ k \in DOMAIN v.f THEN v.f[k] ELSE Undefined

\* v.k throws a TypeError.
Nullish(v) == v.t \in {"null", "undefined"}

\* !!v
Truthy(v) ==
  CASE v.t = "bool" -> v.b
    [] v.t = "num" -> v.n # 0
    [] v.t = "str" -> v.s # ""
    [] v.t \in {"arr", "obj"} -> TRUE
    [] OTHER -> FALSE

\* Array.isArray(v) ? v : []
ArrayOrEmpty(v) == IF v.t = "arr" THEN v.items ELSE <<>>

\* ------------------------------------------------------------------ texts
Whitespace == {" ", "\n"}
Terminators == {".", "!", "?"}
\* A code fence (three backquotes), bare or followed by the word json.
Fence == "[fence]"
FenceJson == "[fence]json"
Punctuation == Terminators \cup {",", Fence, FenceJson}

IsWord(tok) == tok \notin Whitespace \cup Punctuation

STOPWORDS ==
  {"the", "is", "and", "or", "a", "an", "of", "to", "in", "on", "for", "with",
   "at", "by", "from", "as", "that", "this", "it", "are", "was", "be", "can",
   "will", "shall"}

\* String.prototype.toLowerCase on the words of the vocabulary.
toLowerCase(w) ==
  CASE w = "Photosynthesis" -> "photosynthesis"
    [] w = "Plants" -> "plants"
    [] w = "How" -> "how"
    [] w = "Light" -> "light"
    [] w = "Is" -> "is"
    [] w = "The" -> "the"
    [] OTHER -> w

\* String.prototype.trim
RECURSIVE trim(_)
trim(text) ==
  IF text = <<>> THEN <<>>
  ELSE IF Head(text) \in Whitespace THEN trim(Tail(text))
  ELSE IF text[Len(text)] \in Whitespace THEN trim(SubSeq(text, 1, Len(text) - 1))
  ELSE text

\* text.split(/(?<=[\.!\?])\s+/): cut at every whitespace run that follows
\* a terminator.
RECURSIVE splitAtBoundaries(_)
splitAtBoundaries(text) ==
  LET starts == {i \in 2..Len(text) :
                   text[i] \in Whitespace /\ text[i - 1] \in Terminators}
  IN IF starts = {} THEN <<text>>
     ELSE LET i == CHOOSE k \in starts : \A m \in starts : k <= m
              j == CHOOSE k \in i..Len(text) :
                     /\ \A m \in i..k : text[m] \in Whitespace
                     /\ (k = Len(text) \/ text[k + 1] \notin Whitespace)
          IN <<SubSeq(text, 1, i - 1)>>
               \o splitAtBoundaries(SubSeq(text, j + 1, Len(text)))

splitIntoSentences(text) ==
  LET pieces == splitAtBoundaries(text)
      trimmed == [i \in 1..Len(pieces) |-> trim(pieces[i])]
      NonEmpty(s) == Len(s) > 0
  IN SelectSeq(trimmed, NonEmpty)

\* Mutant: the text is not lowercased.
significantTokensCaseSensitive(text) ==
  LET replaced == [i \in 1..Len(text) |-> IF IsWord(text[i]) THEN text[i] ELSE " "]
      Keep(tok) == IsWord(tok) /\ tok \notin STOPWORDS
  IN SelectSeq(replaced, Keep)

\* s.toLowerCase().replace(/[^a-z0-9\s]/g, " ").split(/\s+/)
\*   .filter((t) => t && !STOPWORDS.has(t))
significantTokens(text) ==
  LET lowered == [i \in 1..Len(text) |->
                    IF IsWord(text[i]) THEN toLowerCase(text[i]) ELSE " "]
      Keep(tok) == IsWord(tok) /\ tok \notin STOPWORDS
  IN SelectSeq(lowered, Keep)

RECURSIVE countIn(_, _)
countIn(tokens, questionTokens) ==
  IF tokens = <<>> THEN 0
  ELSE (IF Head(tokens) \in questionTokens THEN 1 ELSE 0)
         + countIn(Tail(tokens), questionTokens)

sentenceScore(sentence, questionTokens) ==
  countIn(significantTokens(sentence), questionTokens)

qTokens(question) == SeqToSet(significantTokens(question))

\* Mutant: a sort that is not stable (equal scores come out reversed).
RECURSIVE sortByScoreUnstable(_)
sortByScoreUnstable(es) ==
  IF es = <<>> THEN <<>>
  ELSE LET init == sortByScoreUnstable(SubSeq(es, 1, Len(es) - 1))
           e == es[Len(es)]
           k == Cardinality({i \in 1..Len(init) : init[i].score > e.score})
       IN SubSeq(init, 1, k) \o <<e>> \o SubSeq(init, k + 1, Len(init))

\* Array.prototype.sort((a, b) => b.score - a.score): stable, descending.
RECURSIVE sortByScore(_)
sortByScore(es) ==
  IF es = <<>> THEN <<>>
  ELSE LET init == sortByScore(SubSeq(es, 1, Len(es) - 1))
           e == es[Len(es)]
           \* e goes after every element whose score is >= its own
           k == Cardinality({i \in 1..Len(init) : init[i].score >= e.score})
       IN SubSeq(init, 1, k) \o <<e>> \o SubSeq(init, k + 1, Len(init))

\* ------------------------------------------ stored subjects and chunks
userId == "u1"

\* subjects.user_id
subjectOwner(subject_id) == IF subject_id = "s1" THEN "u1" ELSE "u2"

\* The chunks of (u1, s1), in table order; c3 belongs to another subject.
storedChunkIds == <<"c1", "c2">>

file_name(id) == IF id = "c1" THEN "bio.pdf" ELSE "physics.pdf"
page_range(id) == IF id = "c1" THEN "1-2" ELSE "7"

content(id) ==
  IF id = "c1"
  THEN <<"Photosynthesis", " ", "converts", " ", "light", " ", "into", " ",
         "chemical", " ", "energy", ".", " ", "Plants", " ", "use", " ",
         "chlorophyll", ".">>
  ELSE <<"Light", " ", "is", " ", "energy", "!", " ", " ", "Plants", " ",
         "convert", " ", "light", ",", " ", "plants", " ", "grow", ".", "\n",
         "Is", " ", "it", " ", "a", " ", "wave", "?", " ">>

ChunkRecord(id) ==
  [id |-> id, file_name |-> file_name(id), page_range |-> page_range(id),
   content |-> content(id)]

\* The orders in which a query without ORDER BY may return the rows S.
rowOrders(S) == {s \in [1..Cardinality(S) -> S] : SeqToSet(s) = S}

\* ---------------------------------------------------------- request bodies
Uuids == {"s1", "s2", "c1", "c2", "c3"}

Question == <<"How", " ", "do", " ", "plants", " ", "convert", " ", "light", "?">>

Bodies ==
  [subject_id : {"s1", "s2", "nope"},
   question : {<<>>, Question},
   thread_id : {"", "t1"},
   context : [last_chunk_ids : SeqsUpTo({"c1", "c3"}, MaxLast) \cup {<<"nope">>},
              last_extracts : {<<>>}]]

\* followupSchema.safeParse(body).success
followupSchema(b) ==
  /\ b.subject_id \in Uuids
  /\ Len(b.question) >= 1
  /\ b.thread_id # ""
  /\ \A i \in 1..Len(b.context.last_chunk_ids) : b.context.last_chunk_ids[i] \in Uuids

\* -------------------------------------------- what the model may answer
Citation(id) ==
  Obj([chunk_id |-> Str(id), file_name |-> Str(file_name(id)),
       page_range |-> Str(page_range(id))])

CitationEntries == {Citation("c1"), Citation("c2"), Null, Num(5)}
UsedEntries == {Str("c1"), Str("c2")}

\* A field holding Undefined is a key the object does not have.
Documents(nc, nu) ==
  {Null, Num(5), Str("x"), Arr(<<>>)} \cup
  {Obj(f) : f \in
     [notFound : {Bool(TRUE), Bool(FALSE)},
      answer : {Undefined, Str("Plants convert light."), Num(42)},
      citations : {Undefined, Str("x")} \cup {Arr(c) : c \in SeqsUpTo(CitationEntries, nc)},
      used_chunk_ids : {Undefined, Str("x")} \cup {Arr(u) : u \in SeqsUpTo(UsedEntries, nu)}]}

\* Tokens of a completion text.
RawFence == [k |-> "fence"]
RawFenceJson == [k |-> "fencejson"]
RawSpace == [k |-> "space"]
RawProse == [k |-> "prose"]
Truncated == [k |-> "truncated"]          \* a JSON text cut short
JsonText(v) == [k |-> "json", v |-> v]    \* JSON.stringify(v)

Contents ==
  {<<JsonText(v)>> : v \in Documents(MaxCitations, MaxUsed)} \cup
  {<<RawFenceJson, RawSpace, JsonText(v), RawSpace, RawFence>> :
     v \in Documents(MaxFenced, MaxFenced)} \cup
  {<<Truncated>>, <<RawSpace>>, <<RawFenceJson, RawSpace, Truncated>>,
   <<RawFence, RawFence>>,
   <<RawProse, RawSpace, JsonText(Obj([notFound |-> Bool(TRUE)]))>>,
   <<JsonText(Null), RawFence, JsonText(Null)>>,
   <<JsonText(Obj([notFound |-> Bool(FALSE), answer |-> Str("Plants convert light."),
                   citations |-> Arr(<<Citation("c3"), Citation("c1")>>),
                   used_chunk_ids |-> Arr(<<Str("c3"), Str("c1")>>)]))>>,
   <<JsonText(Obj([notFound |-> Str("false"), answer |-> Str("Plants convert light."),
                   citations |-> Arr(<<Citation("c1")>>),
                   used_chunk_ids |-> Arr(<<Str("c1")>>)]))>>}

RECURSIVE trimRaw(_)
trimRaw(text) ==
  IF text = <<>> THEN <<>>
  ELSE IF Head(text) = RawSpace THEN trimRaw(Tail(text))
  ELSE IF text[Len(text)] = RawSpace THEN trimRaw(SubSeq(text, 1, Len(text) - 1))
  ELSE text

\* text.replace(/```json/g, "").replace(/```/g, "").trim()
stripPossibleCodeFences(text) ==
  LET NotFence(tok) == tok \notin {RawFence, RawFenceJson}
  IN trimRaw(SelectSeq(text, NotFence))

\* JSON.parse(cleaned) returns a value (otherwise it throws a SyntaxError).
JsonParses(cleaned) ==
  LET t == trimRaw(cleaned) IN Len(t) = 1 /\ t[1].k = "json"

JsonParse(cleaned) == trimRaw(cleaned)[1].v

\* ------------------------------------------------------------- sanitizer
NotFoundAnswer == Str("Not found in your notes for this subject.")

ids(chunks) == {chunks[i].id : i \in 1..Len(chunks)}

\* allowedChunkIds.has(v)
has(allowed, v) == v.t = "str" /\ v.s \in allowed

\* Reading a property of null throws a TypeError: parsedJson.notFound on a
\* null document, c.chunk_id on a null entry of citations.
throwsTypeError(parsedJson) ==
  \/ Nullish(parsedJson)
  \/ LET cs == ArrayOrEmpty(Get(parsedJson, "citations"))
     IN \E i \in 1..Len(cs) : Nullish(cs[i])

\* citations.filter((c) => allowedChunkIds.has(c.chunk_id))
filterCitations(citations, allowed) ==
  LET Allowed(c) == has(allowed, Get(c, "chunk_id"))
  IN SelectSeq(citations, Allowed)

\* Mutant: the used ids are always taken from the citations.
deriveUsedChunkIdsAlways(usedChunkIds, citations) ==
  [i \in 1..Len(citations) |-> Get(citations[i], "chunk_id")]

\* if (usedChunkIds.length === 0) usedChunkIds = citations.map((c) => c.chunk_id)
deriveUsedChunkIds(usedChunkIds, citations) ==
  IF Len(usedChunkIds) = 0
  THEN [i \in 1..Len(citations) |-> Get(citations[i], "chunk_id")]
  ELSE usedChunkIds

\* Mutant: the used ids are deduplicated but not checked against the evidence.
filterUsedChunkIdsUnchecked(usedChunkIds, allowed) == Dedup(usedChunkIds)

\* Mutant: the used ids are checked against the evidence but keep repeats.
filterUsedChunkIdsKeepsRepeats(usedChunkIds, allowed) ==
  LET Allowed(id) == has(allowed, id)
  IN SelectSeq(usedChunkIds, Allowed)

\* Array.from(new Set(usedChunkIds.filter((id) => allowedChunkIds.has(id))))
filterUsedChunkIds(usedChunkIds, allowed) ==
  LET Allowed(id) == has(allowed, id)
  IN Dedup(SelectSeq(usedChunkIds, Allowed))

\* Mutant: && in place of ||.
forceNotFoundBothEmpty(notFound, citations, usedChunkIds) ==
  notFound \/ (Len(citations) = 0 /\ Len(usedChunkIds) = 0)

\* Mutant: the emptiness of the lists alone decides, not the model's flag.
forceNotFoundIgnoresFlag(notFound, citations, usedChunkIds) ==
  Len(citations) = 0 \/ Len(usedChunkIds) = 0

\* if (citations.length === 0 || usedChunkIds.length === 0) notFound = true
forceNotFound(notFound, citations, usedChunkIds) ==
  notFound \/ Len(citations) = 0 \/ Len(usedChunkIds) = 0

\* Mutant: a not-found result keeps its citations.
resetNotFoundKeepsCitations(notFound, answer, citations, usedChunkIds) ==
  IF notFound
  THEN [notFound |-> TRUE, answer |-> NotFoundAnswer, citations |-> citations,
        usedChunkIds |-> <<>>]
  ELSE [notFound |-> FALSE, answer |-> answer, citations |-> citations,
        usedChunkIds |-> usedChunkIds]

\* if (notFound) { answer = <fixed>; citations = []; usedChunkIds = [] }
resetNotFound(notFound, answer, citations, usedChunkIds) ==
  IF notFound
  THEN [notFound |-> TRUE, answer |-> NotFoundAnswer, citations |-> <<>>,
        usedChunkIds |-> <<>>]
  ELSE [notFound |-> FALSE, answer |-> answer, citations |-> citations,
        usedChunkIds |-> usedChunkIds]

\* Mutant: emptiness is tested on the lists as the model sent them, before
\* they are filtered against the evidence.
sanitizeChecksUnfiltered(parsedJson, allowed) ==
  LET notFound == Truthy(Get(parsedJson, "notFound"))
      answer == IF Nullish(Get(parsedJson, "answer")) THEN Str("")
                ELSE Get(parsedJson, "answer")
      sent == ArrayOrEmpty(Get(parsedJson, "citations"))
      citations == filterCitations(sent, allowed)
      derived == deriveUsedChunkIds(ArrayOrEmpty(Get(parsedJson, "used_chunk_ids")), sent)
      usedChunkIds == filterUsedChunkIds(derived, allowed)
  IN resetNotFound(forceNotFound(notFound, sent, derived),
                   answer, citations, usedChunkIds)

\* Lines 218-238 on a document that does not make them throw.
sanitize(parsedJson, allowed) ==
  LET notFound == Truthy(Get(parsedJson, "notFound"))
      answer == IF Nullish(Get(parsedJson, "answer")) THEN Str("")
                ELSE Get(parsedJson, "answer")
      citations == filterCitations(ArrayOrEmpty(Get(parsedJson, "citations")), allowed)
      usedChunkIds ==
        filterUsedChunkIds(
          deriveUsedChunkIds(ArrayOrEmpty(Get(parsedJson, "used_chunk_ids")), citations),
          allowed)
  IN resetNotFound(forceNotFound(notFound, citations, usedChunkIds),
                   answer, citations, usedChunkIds)

\* ------------------------------------------------------------- extractor
chunkById(chunks, cid) ==
  LET at == {i \in 1..Len(chunks) : chunks[i].id = cid}
  IN chunks[CHOOSE i \in at : \A j \in at : j <= i]

\* The scoring sentences of one chunk, in sentence order.
chunkEvidences(c, tokens) ==
  LET sentences == splitIntoSentences(c.content)
      scored == [i \in 1..Len(sentences) |->
                   [text |-> sentences[i], chunk_id |-> c.id,
                    file_name |-> c.file_name, page_range |-> c.page_range,
                    score |-> sentenceScore(sentences[i], tokens)]]
      Positive(e) == e.score > 0
  IN SelectSeq(scored, Positive)

\* Mutant: every chunk of the evidence set is scanned, used or not.
RECURSIVE evidencesOfAllChunks(_, _, _)
evidencesOfAllChunks(usedChunkIds, chunks, tokens) ==
  IF chunks = <<>> THEN <<>>
  ELSE chunkEvidences(Head(chunks), tokens)
         \o evidencesOfAllChunks(usedChunkIds, Tail(chunks), tokens)

RECURSIVE evidences(_, _, _)
evidences(usedChunkIds, chunks, tokens) ==
  IF usedChunkIds = <<>> THEN <<>>
  ELSE LET cid == Head(usedChunkIds).s
           rest == evidences(Tail(usedChunkIds), chunks, tokens)
       IN IF cid \notin ids(chunks) THEN rest
          ELSE chunkEvidences(chunkById(chunks, cid), tokens) \o rest

supportingExtracts(notFound, usedChunkIds, chunks, question) ==
  IF ~notFound /\ Len(usedChunkIds) > 0
  THEN LET sorted == sortByScore(evidences(usedChunkIds, chunks, qTokens(question)))
           top == SubSeq(sorted, 1, Min(TopExtracts, Len(sorted)))
       IN [i \in 1..Len(top) |->
             [text |-> top[i].text, chunk_id |-> top[i].chunk_id,
              citation |-> [file_name |-> top[i].file_name,
                            page_range |-> top[i].page_range]]]
  ELSE <<>>

\* ------------------------------------------------- one follow-up request
VARIABLES
  pc,            \* where handleQaFollowup stands
  body,          \* the request body
  baseError,     \* whether the prior-chunk lookup reported an error
  baseChunks,    \* rows of the prior-chunk lookup
  allChunks,     \* the evidence set
  search,        \* how the optional vector search went
  completion,    \* what the completion service did
  raw,           \* the completion text
  result,        \* the value handleQaFollowup returned
  error,         \* the exception handleQaFollowup threw
  calls,         \* calls made to each collaborator
  page,          \* the state of the QAPage component
  synth          \* the state of useTextToSpeech and of window.speechSynthesis

vars ==
  <<pc, body, baseError, baseChunks, allChunks, search, completion, raw, result,
    error, calls, page, synth>>

\* QAPage after its first render: the useState initial values. threadId 0 is
\* null; mounting holds while GET /subjects is outstanding; inflight holds the
\* Q&A requests awaiting their response; issued counts
\* the requests made; askedSinceReset records whether a question was
\* submitted since the thread was last reset.
pageMounted ==
  [subjects |-> <<>>, mounting |-> TRUE, selectedSubject |-> "", question |-> "",
   loading |-> FALSE, error |-> "", threadId |-> 0, messages |-> <<>>,
   lastChunkIds |-> <<>>, lastExtracts |-> <<>>, lastSpokenText |-> "",
   autoSpeak |-> TRUE,
   autoSubmitVoice |-> TRUE, inflight |-> {}, issued |-> 0,
   askedSinceReset |-> FALSE]

\* useTextToSpeech after its first render. current is the utterance being
\* spoken (0: none), pending the utterances whose end or error event is
\* queued, made the number of utterances created.
synthMounted(supported) ==
  [supported |-> supported, mounted |-> TRUE, speaking |-> FALSE, current |-> 0,
   pending |-> {}, made |-> 0]

NoResult == [returned |-> FALSE]
NoRaw == <<>>

\* Mutant: the fixed result does not echo the thread id.
notFoundResultNoThread(thread_id) ==
  [returned |-> TRUE, thread_id |-> "", notFound |-> TRUE,
   answer |-> NotFoundAnswer, citations |-> <<>>, used_chunk_ids |-> <<>>,
   supporting_extracts |-> <<>>]

notFoundResult(thread_id) ==
  [returned |-> TRUE, thread_id |-> thread_id, notFound |-> TRUE,
   answer |-> NotFoundAnswer, citations |-> <<>>, used_chunk_ids |-> <<>>,
   supporting_extracts |-> <<>>]

Init ==
  /\ pc = "validate"
  /\ page = pageMounted
  /\ synth = synthMounted(TRUE)
  /\ body \in Bodies
  /\ baseError = FALSE
  /\ baseChunks = <<>>
  /\ allChunks = <<>>
  /\ search = [embed |-> "none", match |-> "none", matches |-> <<>>]
  /\ completion = "none"
  /\ raw = NoRaw
  /\ result = NoResult
  /\ error = "none"
  /\ calls = [subjects |-> 0, chunks |-> 0, embed |-> 0, match_chunks |-> 0, groq |-> 0]

Throw(e) ==
  /\ pc' = "failed"
  /\ error' = e

called(svc) == [calls EXCEPT ![svc] = @ + 1]

\* Lines 85-89.
ValidateBody ==
  /\ pc = "validate"
  /\ IF followupSchema(body)
     THEN pc' = "subject" /\ error' = error
     ELSE Throw("ValidationError")
  /\ UNCHANGED <<page, synth, body, baseError, baseChunks, allChunks, search, completion, raw, result, calls>>

\* Mutant: the subject is not checked against the user.
LoadSubjectUnscoped ==
  /\ pc = "subject"
  /\ calls' = called("subjects")
  /\ \E failed \in BOOLEAN :
       IF failed THEN Throw("Subject not found for user")
       ELSE pc' = "chunks" /\ error' = error
  /\ UNCHANGED <<page, synth, body, baseError, baseChunks, allChunks, search, completion, raw, result>>

\* Lines 91-100: the subject row of this user, or an error.
LoadSubject ==
  /\ pc = "subject"
  /\ calls' = called("subjects")
  /\ \E failed \in {subjectOwner(body.subject_id) # userId, TRUE} :
       IF failed THEN Throw("Subject not found for user")
       ELSE pc' = "chunks" /\ error' = error
  /\ UNCHANGED <<page, synth, body, baseError, baseChunks, allChunks, search, completion, raw, result>>

baseChunkIds == Dedup(body.context.last_chunk_ids)

\* Lines 102-118 with no prior ids: no query is made.
SkipContextChunks ==
  /\ pc = "chunks"
  /\ Len(baseChunkIds) = 0
  /\ pc' = "embed"
  /\ UNCHANGED <<page, synth, body, baseError, baseChunks, allChunks, search, completion, raw, result, error, calls>>

\* Mutant: a lookup error is treated as zero rows.
LoadContextChunksSwallows ==
  /\ pc = "chunks"
  /\ Len(baseChunkIds) > 0
  /\ calls' = called("chunks")
  /\ \/ /\ baseError' = TRUE
        /\ UNCHANGED <<page, synth, baseChunks, allChunks>>
     \/ \E order \in rowOrders(SeqToSet(storedChunkIds) \cap SeqToSet(baseChunkIds)) :
          /\ baseError' = FALSE
          /\ baseChunks' = [i \in 1..Len(order) |-> ChunkRecord(order[i])]
          /\ allChunks' = baseChunks'
  /\ pc' = "embed"
  /\ UNCHANGED <<page, synth, body, search, completion, raw, result, error>>

\* Mutant: a prior id without a row is an error.
LoadContextChunksStrict ==
  /\ pc = "chunks"
  /\ Len(baseChunkIds) > 0
  /\ calls' = called("chunks")
  /\ \/ /\ baseError' = TRUE
        /\ Throw("Failed to load context chunks")
        /\ UNCHANGED <<page, synth, baseChunks, allChunks>>
     \/ \E order \in rowOrders(SeqToSet(storedChunkIds) \cap SeqToSet(baseChunkIds)) :
          /\ baseError' = FALSE
          /\ baseChunks' = [i \in 1..Len(order) |-> ChunkRecord(order[i])]
          /\ allChunks' = baseChunks'
          /\ IF Len(order) < Len(baseChunkIds)
             THEN Throw("Failed to load context chunks")
             ELSE pc' = "embed" /\ error' = error
  /\ UNCHANGED <<page, synth, body, search, completion, raw, result>>

\* Lines 102-118: the rows of this user and subject whose id is a prior id.
LoadContextChunks ==
  /\ pc = "chunks"
  /\ Len(baseChunkIds) > 0
  /\ calls' = called("chunks")
  /\ \/ /\ baseError' = TRUE
        /\ Throw("Failed to load context chunks")
        /\ UNCHANGED <<page, synth, baseChunks, allChunks>>
     \/ \E order \in rowOrders(SeqToSet(storedChunkIds) \cap SeqToSet(baseChunkIds)) :
          /\ baseError' = FALSE
          /\ baseChunks' = [i \in 1..Len(order) |-> ChunkRecord(order[i])]
          /\ allChunks' = baseChunks'
          /\ pc' = "embed"
          /\ error' = error
  /\ UNCHANGED <<page, synth, body, search, completion, raw, result>>

\* Mutant: embedText is called outside the try block.
EmbedTextRethrows ==
  /\ pc = "embed"
  /\ calls' = called("embed")
  /\ \/ /\ search' = [search EXCEPT !.embed = "threw"]
        /\ Throw("Embedding failed")
     \/ /\ search' = [search EXCEPT !.embed = "ok"]
        /\ pc' = "match"
        /\ error' = error
  /\ UNCHANGED <<page, synth, body, baseError, baseChunks, allChunks, completion, raw, result>>

\* Line 121 and the catch of lines 142-144.
EmbedText ==
  /\ pc = "embed"
  /\ calls' = called("embed")
  /\ \E threw \in BOOLEAN :
       IF threw
       THEN pc' = "assembled" /\ search' = [search EXCEPT !.embed = "threw"]
       ELSE pc' = "match" /\ search' = [search EXCEPT !.embed = "ok"]
  /\ UNCHANGED <<page, synth, body, baseError, baseChunks, allChunks, completion, raw, result, error>>

\* Mutant: every match is pushed.
mergeMatchesPushesAll(chunks, matches) == chunks \o matches

\* Lines 129-140: push the matches whose id is not yet present.
RECURSIVE mergeMatches(_, _)
mergeMatches(chunks, matches) ==
  IF matches = <<>> THEN chunks
  ELSE LET m == Head(matches)
       IN mergeMatches(IF m.id \in ids(chunks) THEN chunks ELSE Append(chunks, m),
                       Tail(matches))

\* Mutant: no catch around the vector search.
MatchChunksRethrows ==
  /\ pc = "match"
  /\ calls' = called("match_chunks")
  /\ \/ /\ search' = [search EXCEPT !.match = "threw"]
        /\ allChunks' = allChunks
        /\ Throw("SearchError")
     \/ /\ search' = [search EXCEPT !.match = "error"]
        /\ allChunks' = allChunks
        /\ pc' = "assembled"
        /\ error' = error
     \/ \E found \in SeqsUpTo(SeqToSet(storedChunkIds), Min(MaxMatches, match_count)) :
          LET matches == [i \in 1..Len(found) |-> ChunkRecord(found[i])]
          IN /\ search' = [search EXCEPT !.match = "ok", !.matches = matches]
             /\ allChunks' = mergeMatches(allChunks, matches)
             /\ pc' = "assembled"
             /\ error' = error
  /\ UNCHANGED <<page, synth, body, baseError, baseChunks, completion, raw, result>>

\* Lines 122-144: match_chunks throws, reports an error, or returns rows.
MatchChunks ==
  /\ pc = "match"
  /\ calls' = called("match_chunks")
  /\ \/ /\ \E how \in {"threw", "error"} : search' = [search EXCEPT !.match = how]
        /\ allChunks' = allChunks
     \/ \E found \in SeqsUpTo(SeqToSet(storedChunkIds), Min(MaxMatches, match_count)) :
          LET matches == [i \in 1..Len(found) |-> ChunkRecord(found[i])]
          IN /\ search' = [search EXCEPT !.match = "ok", !.matches = matches]
             /\ allChunks' = mergeMatches(allChunks, matches)
  /\ pc' = "assembled"
  /\ UNCHANGED <<page, synth, body, baseError, baseChunks, completion, raw, result, error>>

\* Lines 146-155.
ReturnNoEvidence ==
  /\ pc = "assembled"
  /\ Len(allChunks) = 0
  /\ result' = notFoundResult(body.thread_id)
  /\ pc' = "done"
  /\ UNCHANGED <<page, synth, body, baseError, baseChunks, allChunks, search, completion, raw, error, calls>>

allowedChunkIds == ids(allChunks)

\* Mutant: the completion is requested whatever the evidence.
StartCompletionUnguarded ==
  /\ pc = "assembled"
  /\ calls' = called("groq")
  /\ pc' = "completion"
  /\ completion' = "pending"
  /\ UNCHANGED <<page, synth, body, baseError, baseChunks, allChunks, search, raw, result, error>>

\* Line 200: callGroqJson is called and awaited.
StartCompletion ==
  /\ pc = "assembled"
  /\ Len(allChunks) > 0
  /\ calls' = called("groq")
  /\ pc' = "completion"
  /\ completion' = "pending"
  /\ UNCHANGED <<page, synth, body, baseError, baseChunks, allChunks, search, raw, result, error>>

\* Mutant: a rejected completion request is answered with not-found.
CompletionFailsSwallowed ==
  /\ pc = "completion"
  /\ completion' = "rejected"
  /\ result' = notFoundResult(body.thread_id)
  /\ pc' = "done"
  /\ UNCHANGED <<page, synth, body, baseError, baseChunks, allChunks, search, raw, error, calls>>

\* callGroqJson, line 11: the completion request is rejected (the service
\* is unreachable or timed out).
CompletionFails ==
  /\ pc = "completion"
  /\ completion' = "rejected"
  /\ Throw("ServiceError")
  /\ UNCHANGED <<page, synth, body, baseError, baseChunks, allChunks, search, raw, result, calls>>

\* Mutant: an empty completion is requested again.
CompletionEmptyRetries ==
  /\ pc = "completion"
  /\ completion' = "empty"
  /\ pc' = "assembled"
  /\ UNCHANGED <<page, synth, body, baseError, baseChunks, allChunks, search, raw, result, error, calls>>

\* callGroqJson, lines 21-24: the completion carries no content.
CompletionEmpty ==
  /\ pc = "completion"
  /\ completion' = "empty"
  /\ Throw("Groq returned empty response")
  /\ UNCHANGED <<page, synth, body, baseError, baseChunks, allChunks, search, raw, result, calls>>

\* Mutant: the SyntaxError of JSON.parse is not caught.
ReturnParseFailureRethrows ==
  /\ pc = "completion"
  /\ completion' = "content"
  /\ \E text \in Contents :
       /\ ~JsonParses(stripPossibleCodeFences(text))
       /\ raw' = text
  /\ Throw("SyntaxError")
  /\ UNCHANGED <<page, synth, body, baseError, baseChunks, allChunks, search, result, calls>>

\* Lines 201-216: the completion text, once cleaned, is not JSON.
ReturnParseFailure ==
  /\ pc = "completion"
  /\ completion' = "content"
  /\ \E text \in Contents :
       /\ ~JsonParses(stripPossibleCodeFences(text))
       /\ raw' = text
  /\ result' = notFoundResult(body.thread_id)
  /\ pc' = "done"
  /\ UNCHANGED <<page, synth, body, baseError, baseChunks, allChunks, search, error, calls>>

\* Lines 218-223 reading a property of null.
ThrowTypeError ==
  /\ pc = "completion"
  /\ completion' = "content"
  /\ \E text \in Contents :
       /\ JsonParses(stripPossibleCodeFences(text))
       /\ throwsTypeError(JsonParse(stripPossibleCodeFences(text)))
       /\ raw' = text
  /\ Throw("TypeError")
  /\ UNCHANGED <<page, synth, body, baseError, baseChunks, allChunks, search, result, calls>>

\* Mutant: the extracts are computed from the filtered used ids before the
\* not-found reset.
followupResultExtractsFirst(parsedJson, chunks, b) ==
  LET s == sanitize(parsedJson, ids(chunks))
      citations == filterCitations(ArrayOrEmpty(Get(parsedJson, "citations")), ids(chunks))
      usedChunkIds ==
        filterUsedChunkIds(
          deriveUsedChunkIds(ArrayOrEmpty(Get(parsedJson, "used_chunk_ids")), citations),
          ids(chunks))
  IN [returned |-> TRUE, thread_id |-> b.thread_id, notFound |-> s.notFound,
      answer |-> s.answer, citations |-> s.citations,
      used_chunk_ids |-> s.usedChunkIds,
      supporting_extracts |->
        supportingExtracts(FALSE, usedChunkIds, chunks, b.question)]

\* The value returned at lines 294-301 for a parsed document.
followupResult(parsedJson, chunks, b) ==
  LET s == sanitize(parsedJson, ids(chunks))
  IN [returned |-> TRUE, thread_id |-> b.thread_id, notFound |-> s.notFound,
      answer |-> s.answer, citations |-> s.citations,
      used_chunk_ids |-> s.usedChunkIds,
      supporting_extracts |->
        supportingExtracts(s.notFound, s.usedChunkIds, chunks, b.question)]

\* Lines 201-301 on a text that parses and does not throw.
ReturnAnswer ==
  /\ pc = "completion"
  /\ completion' = "content"
  /\ \E text \in Contents :
       /\ JsonParses(stripPossibleCodeFences(text))
       /\ ~throwsTypeError(JsonParse(stripPossibleCodeFences(text)))
       /\ raw' = text
       /\ result' = followupResult(JsonParse(stripPossibleCodeFences(text)),
                                   allChunks, body)
  /\ pc' = "done"
  /\ UNCHANGED <<page, synth, body, baseError, baseChunks, allChunks, search, error, calls>>

Next ==
  \/ ValidateBody
  \/ LoadSubject
  \/ SkipContextChunks
  \/ LoadContextChunks
  \/ EmbedText
  \/ MatchChunks
  \/ ReturnNoEvidence
  \/ StartCompletion
  \/ CompletionFails
  \/ CompletionEmpty
  \/ ReturnParseFailure
  \/ ThrowTypeError
  \/ ReturnAnswer

Spec == Init /\ [][Next]_vars

\* --------------------------------------------------- the extractor alone
\* Lines 240-292 applied to chunks of any content: chunk c1 holds up to
\* MaxSentences pieces of sentencePool, chunk c2 holds five scoring sentences.
sentencePool ==
  {<<"plants", " ", "convert", " ", "light", ".">>,
   <<"Light", " ", "is", " ", "energy", "!">>,
   <<"Is", " ", "it", " ", "a", " ", "wave", "?">>,
   <<"plants", " ", "grow">>}

RECURSIVE joinPieces(_)
joinPieces(pieces) ==
  IF pieces = <<>> THEN <<>>
  ELSE IF Len(pieces) = 1 THEN pieces[1]
  ELSE pieces[1] \o <<" ">> \o joinPieces(Tail(pieces))

fiveSentences ==
  joinPieces(<<<<"Light", " ", "is", " ", "energy", "!">>,
               <<"plants", " ", "convert", " ", "light", ".">>,
               <<"Plants", " ", "use", " ", "chlorophyll", ".">>,
               <<"How", " ", "do", " ", "plants", " ", "grow", "?">>,
               <<"The", " ", "light", " ", "is", " ", "a", " ", "wave", ".">>>>)

otherQuestion == <<"Is", " ", "light", " ", "energy", "?">>

ExtractInit ==
  /\ pc = "extract"
  /\ page = pageMounted
  /\ synth = synthMounted(TRUE)
  /\ \E q \in {Question, otherQuestion} :
       body = [subject_id |-> "s1", question |-> q, thread_id |-> "t1",
               context |-> [last_chunk_ids |-> <<>>, last_extracts |-> <<>>]]
  /\ baseError = FALSE
  /\ baseChunks = <<>>
  /\ \E pieces \in SeqsUpTo(sentencePool, MaxSentences) :
       allChunks = <<[ChunkRecord("c1") EXCEPT !.content = joinPieces(pieces)],
                     [ChunkRecord("c2") EXCEPT !.content = fiveSentences]>>
  /\ search = [embed |-> "none", match |-> "none", matches |-> <<>>]
  /\ completion = "none"
  /\ raw = NoRaw
  /\ result = NoResult
  /\ error = "none"
  /\ calls = [subjects |-> 0, chunks |-> 0, embed |-> 0, match_chunks |-> 0, groq |-> 0]

\* Lines 240-301 for a found answer that used the chunks usedChunkIds.
Extract ==
  /\ pc = "extract"
  /\ \E usedChunkIds \in {<<Str("c1")>>, <<Str("c2")>>, <<Str("c1"), Str("c2")>>,
                          <<Str("c2"), Str("c1")>>} :
       result' =
         [returned |-> TRUE, thread_id |-> body.thread_id, notFound |-> FALSE,
          answer |-> Str("Plants convert light."),
          citations |-> [i \in 1..Len(usedChunkIds) |-> Citation(usedChunkIds[i].s)],
          used_chunk_ids |-> usedChunkIds,
          supporting_extracts |->
            supportingExtracts(FALSE, usedChunkIds, allChunks, body.question)]
  /\ pc' = "done"
  /\ UNCHANGED <<page, synth, body, baseError, baseChunks, allChunks, search, completion, raw,
                 error, calls>>

SpecExtract == ExtractInit /\ [][Extract]_vars

\* ------------------------------------------------------ useTextToSpeech
\* The variables of a follow-up request, which the front end leaves alone.
requestVars ==
  <<pc, body, baseError, baseChunks, allChunks, search, completion, raw, result,
    error, calls>>

\* No request is being handled.
noRequest ==
  /\ pc = "idle"
  /\ body = [subject_id |-> "s1", question |-> Question, thread_id |-> "t1",
             context |-> [last_chunk_ids |-> <<>>, last_extracts |-> <<>>]]
  /\ baseError = FALSE
  /\ baseChunks = <<>>
  /\ allChunks = <<>>
  /\ search = [embed |-> "none", match |-> "none", matches |-> <<>>]
  /\ completion = "none"
  /\ raw = NoRaw
  /\ result = NoResult
  /\ error = "none"
  /\ calls = [subjects |-> 0, chunks |-> 0, embed |-> 0, match_chunks |-> 0, groq |-> 0]

\* window.speechSynthesis.cancel(): the utterance being spoken stops. The
\* platform queues its end or error event for a later task, or fires none.
cancel(s) ==
  IF s.current = 0 THEN {s}
  ELSE {[s EXCEPT !.current = 0, !.pending = @ \cup {s.current}],
        [s EXCEPT !.current = 0]}

\* speak(text), lines 29-37: the states speak may leave the hook in.
speak(s, text) ==
  IF ~s.supported \/ text = "" THEN {s}
  ELSE {[c EXCEPT !.made = @ + 1, !.current = c.made + 1, !.speaking = TRUE] :
          c \in cancel(s)}

SpeechInit ==
  /\ noRequest
  /\ page = pageMounted
  /\ \E supported \in BOOLEAN : synth = synthMounted(supported)

\* A call of speak by the page.
Speak ==
  /\ synth.mounted
  /\ synth.made < MaxUtterances
  /\ \E text \in {"", "answer"} : synth' \in speak(synth, text)
  /\ UNCHANGED <<requestVars, page>>

\* The platform finishes the utterance being spoken, or fails to speak it,
\* and queues its end or error event.
UtteranceEnds ==
  /\ synth.current # 0
  /\ synth' = [synth EXCEPT !.current = 0, !.pending = @ \cup {synth.current}]
  /\ UNCHANGED <<requestVars, page>>

\* utterance.onend / utterance.onerror, lines 33-34; a state update of an
\* unmounted component is dropped.
UtteranceCallback ==
  /\ \E u \in synth.pending :
       synth' = [synth EXCEPT !.pending = @ \ {u},
                              !.speaking = IF synth.mounted THEN FALSE ELSE @]
  /\ UNCHANGED <<requestVars, page>>

\* stop(), lines 39-43.
StopSpeaking ==
  /\ synth.mounted
  /\ IF ~synth.supported
     THEN synth' = synth
     ELSE \E s \in cancel(synth) : synth' = [s EXCEPT !.speaking = FALSE]
  /\ UNCHANGED <<requestVars, page>>

\* The cleanup of the effect of lines 18-27, which exists only when speech
\* synthesis is supported. The "end" listener of line 21 is never called:
\* end events are dispatched on utterances, not on speechSynthesis.
Unmount ==
  /\ synth.mounted
  /\ IF ~synth.supported
     THEN synth' = [synth EXCEPT !.mounted = FALSE]
     ELSE \E s \in cancel(synth) : synth' = [s EXCEPT !.mounted = FALSE]
  /\ UNCHANGED <<requestVars, page>>

SpeechNext ==
  \/ Speak
  \/ UtteranceEnds
  \/ UtteranceCallback
  \/ StopSpeaking
  \/ Unmount

SpecSpeech == SpeechInit /\ [][SpeechNext]_vars

\* --------------------------------------------------------------- QAPage
\* handleResetThread, lines 142-147, and the effect of lines 135-140.
handleResetThread(p) ==
  [p EXCEPT !.threadId = 0, !.messages = <<>>, !.lastChunkIds = <<>>,
            !.lastExtracts = <<>>, !.askedSinceReset = FALSE]

\* askNewQuestion up to its await, lines 155-169.
askNewQuestion(p, text) ==
  IF p.selectedSubject = "" \/ text = "" THEN p
  ELSE [p EXCEPT !.error = "", !.loading = TRUE, !.issued = @ + 1,
                 !.askedSinceReset = TRUE,
                 !.inflight = @ \cup
                   {[id |-> p.issued + 1, path |-> "/qa",
                     subject_id |-> p.selectedSubject, question |-> text,
                     thread_id |-> 0, last_chunk_ids |-> <<>>]}]

\* askFollowup up to its await, lines 235-254; the request keeps the
\* lastChunkIds of the render that issued it.
askFollowup(p, text) ==
  IF p.threadId = 0 \/ p.selectedSubject = "" \/ text = "" THEN p
  ELSE [p EXCEPT !.error = "", !.loading = TRUE, !.issued = @ + 1,
                 !.askedSinceReset = TRUE,
                 !.inflight = @ \cup
                   {[id |-> p.issued + 1, path |-> "/qa/followup",
                     subject_id |-> p.selectedSubject, question |-> text,
                     thread_id |-> p.threadId, last_chunk_ids |-> p.lastChunkIds]}]

\* handleNewQuestion, lines 285-291.
handleNewQuestion(p, text) ==
  LET typed == [p EXCEPT !.question = text]
  IN IF p.autoSubmitVoice THEN askNewQuestion(handleResetThread(typed), text)
     ELSE typed

\* handleFollowupVoice, lines 293-302.
handleFollowupVoice(p, text) ==
  LET typed == [p EXCEPT !.question = text]
  IN IF p.threadId = 0 THEN [typed EXCEPT !.error = "Ask a first question first."]
     ELSE IF p.autoSubmitVoice THEN askFollowup(typed, text)
     ELSE typed

\* The two messages a response appends, lines 160-164 and 176-207, 241-264.
exchange(r, mode, text) ==
  <<[role |-> "user", mode |-> "", text |-> r.question],
    [role |-> "assistant", mode |-> mode, text |-> text]>>

\* speakIfEnabled, lines 149-153.
speakIfEnabled(p, s, text) ==
  IF p.autoSpeak /\ s.supported /\ text # "" THEN speak(s, text) ELSE {s}

PageInit ==
  /\ noRequest
  /\ page = pageMounted
  /\ synth = synthMounted(TRUE)

\* loadSubjects, lines 119-133, once GET /subjects has answered; choosing
\* the first subject runs the effect of lines 135-140.
LoadSubjects ==
  /\ page.mounting
  /\ \/ \E subjects \in {<<>>, <<"s1", "s2">>} :
          page' = IF Len(subjects) > 0
                  THEN handleResetThread([page EXCEPT !.mounting = FALSE,
                                                      !.subjects = subjects,
                                                      !.selectedSubject = subjects[1]])
                  ELSE [page EXCEPT !.mounting = FALSE, !.subjects = subjects]
     \/ page' = [page EXCEPT !.mounting = FALSE, !.error = "Failed to load subjects"]
  /\ UNCHANGED <<requestVars, synth>>

\* The subject select, and the effect of lines 135-140 that follows.
SelectSubject ==
  /\ \E subject \in SeqToSet(page.subjects) \ {page.selectedSubject} :
       page' = handleResetThread([page EXCEPT !.selectedSubject = subject])
  /\ UNCHANGED <<requestVars, synth>>

\* The question box.
TypeQuestion ==
  /\ \E text \in {"", "why"} : page' = [page EXCEPT !.question = text]
  /\ UNCHANGED <<requestVars, synth>>

\* The auto-speak and auto-submit check boxes.
ToggleAutoSpeak ==
  /\ page' = [page EXCEPT !.autoSpeak = ~@]
  /\ UNCHANGED <<requestVars, synth>>

ToggleAutoSubmitVoice ==
  /\ page' = [page EXCEPT !.autoSubmitVoice = ~@]
  /\ UNCHANGED <<requestVars, synth>>

\* handleNewQuestionClick, lines 352-356; the button is disabled while
\* loading, without a question or without a subject.
NewQuestionClick ==
  /\ ~page.loading /\ page.question # "" /\ page.selectedSubject # ""
  /\ page.issued < MaxRequests
  /\ page' = askNewQuestion(handleResetThread(page), page.question)
  /\ UNCHANGED <<requestVars, synth>>

\* handleFollowupClick, lines 358-362; the button is also disabled without
\* a thread.
FollowupClick ==
  /\ ~page.loading /\ page.question # "" /\ page.selectedSubject # ""
  /\ page.threadId # 0
  /\ page.issued < MaxRequests
  /\ page' = askFollowup(page, page.question)
  /\ UNCHANGED <<requestVars, synth>>

\* The "Reset thread" button, never disabled.
ResetThreadClick ==
  /\ page' = handleResetThread(page)
  /\ UNCHANGED <<requestVars, synth>>

\* The effect of lines 280-348 on a final transcript that is a question: a
\* command word followed by text, or plain text.
VoiceTranscript ==
  /\ page.issued < MaxRequests
  /\ \E command \in {"new question", "follow up", "ask", ""}, text \in {"", "why"} :
       /\ command # "" \/ text # ""
       /\ page' =
            CASE command = "new question" -> handleNewQuestion(page, text)
              [] command = "follow up" -> handleFollowupVoice(page, text)
              [] command = "ask" ->
                   IF page.threadId # 0 THEN handleFollowupVoice(page, text)
                   ELSE handleNewQuestion(page, text)
              [] OTHER ->
                   IF ~page.autoSubmitVoice THEN [page EXCEPT !.question = text]
                   ELSE IF page.threadId # 0 THEN handleFollowupVoice(page, text)
                   ELSE handleNewQuestion(page, text)
  /\ UNCHANGED <<requestVars, synth>>

\* askNewQuestion after its await, lines 171-232: /qa answered not_found or
\* ok with snippets.
QaResponds ==
  /\ \E r \in page.inflight, snippets \in {<<>>, <<"c1">>, <<"c1", "c1">>} :
       /\ r.path = "/qa"
       /\ LET spoken == IF snippets = <<>> THEN "No matching notes." ELSE "snippets"
          IN /\ page' = [page EXCEPT
                          !.threadId = r.id,
                          !.lastChunkIds = Dedup(snippets),
                          !.lastExtracts = snippets,
                          !.messages = @ \o exchange(r, "evidence",
                                                     IF snippets = <<>> THEN spoken ELSE ""),
                          !.lastSpokenText = spoken,
                          !.question = "",
                          !.loading = FALSE,
                          !.inflight = @ \ {r}]
             /\ synth' \in speakIfEnabled(page, synth, spoken)
  /\ UNCHANGED requestVars

\* The catch and finally of lines 228-232.
QaFails ==
  /\ \E r \in page.inflight :
       /\ r.path = "/qa"
       /\ page' = [page EXCEPT !.error = "Failed to run Q&A", !.loading = FALSE,
                               !.inflight = @ \ {r}]
  /\ UNCHANGED <<requestVars, synth>>

\* askFollowup after its await, lines 256-277: a not-found or a found
\* FollowupResponse.
FollowupResponds ==
  /\ \E r \in page.inflight, used_chunk_ids \in {<<>>, <<"c2">>} :
       /\ r.path = "/qa/followup"
       /\ LET answer == IF used_chunk_ids = <<>>
                        THEN "Not found in your notes for this subject."
                        ELSE "Plants convert light."
          IN /\ page' = [page EXCEPT
                          !.lastChunkIds = IF Len(used_chunk_ids) > 0 THEN used_chunk_ids
                                           ELSE r.last_chunk_ids,
                          !.lastExtracts = used_chunk_ids,
                          !.messages = @ \o exchange(r, "explain", answer),
                          !.lastSpokenText = answer,
                          !.question = "",
                          !.loading = FALSE,
                          !.inflight = @ \ {r}]
             /\ synth' \in speakIfEnabled(page, synth, answer)
  /\ UNCHANGED requestVars

\* The catch and finally of lines 273-277: the request failed, or reading
\* the response threw.
FollowupFails ==
  /\ \E r \in page.inflight :
       /\ r.path = "/qa/followup"
       /\ page' = [page EXCEPT !.error = "Failed to run follow-up Q&A",
                               !.loading = FALSE, !.inflight = @ \ {r}]
  /\ UNCHANGED <<requestVars, synth>>

PageNext ==
  \/ LoadSubjects
  \/ SelectSubject
  \/ TypeQuestion
  \/ ToggleAutoSpeak
  \/ ToggleAutoSubmitVoice
  \/ NewQuestionClick
  \/ FollowupClick
  \/ ResetThreadClick
  \/ VoiceTranscript
  \/ QaResponds
  \/ QaFails
  \/ FollowupResponds
  \/ FollowupFails

SpecPage == PageInit /\ [][PageNext]_vars

\* ------------------------------------------------------- state functions
\* The completion carried a text that JSON.parse accepts once cleaned.
parsed == completion = "content" /\ JsonParses(stripPossibleCodeFences(raw))

\* Line 205.
parsedJson == JsonParse(stripPossibleCodeFences(raw))

\* Evidence assembly (lines 102-144) is over.
assembled == search.embed = "threw" \/ search.match # "none"

\* The chunk ids a result names.
citedIds(r) ==
  {Get(r.citations[i], "chunk_id") : i \in 1..Len(r.citations)}
    \cup SeqToSet(r.used_chunk_ids)

\* The lists of the parsed document after filtering (lines 220-228).
filteredCitations ==
  filterCitations(ArrayOrEmpty(Get(parsedJson, "citations")), allowedChunkIds)

filteredUsedChunkIds ==
  filterUsedChunkIds(
    deriveUsedChunkIds(ArrayOrEmpty(Get(parsedJson, "used_chunk_ids")), filteredCitations),
    allowedChunkIds)

\* A result read back as a model document.
asDocument(r) ==
  Obj([notFound |-> Bool(r.notFound), answer |-> r.answer,
       citations |-> Arr(r.citations), used_chunk_ids |-> Arr(r.used_chunk_ids)])

\* A JSON value that is not of the shape the prompt asks for.
wrongShape(v) ==
  \/ v.t # "obj"
  \/ Get(v, "answer").t # "str"
  \/ Get(v, "citations").t # "arr"
  \/ \E i \in 1..Len(ArrayOrEmpty(Get(v, "citations"))) :
       Get(v, "citations").items[i].t # "obj"
  \/ Get(v, "used_chunk_ids").t # "arr"

\* ----------------------------------------------------------------- claims

\* C1: in every returned result, notFound holds exactly when citations and
\* usedChunkIds are both empty, and a not-found result carries the fixed
\* sentence as its answer.
C1_NotFoundIffEmpty ==
  result.returned =>
    /\ result.notFound <=> (result.citations = <<>> /\ result.used_chunk_ids = <<>>)
    /\ result.notFound => result.answer = NotFoundAnswer

\* The model claimed an answer with a citation, and the result was forced to
\* not-found.
C1_Witness ==
  /\ pc = "done" /\ parsed
  /\ ~Truthy(Get(parsedJson, "notFound"))
  /\ Len(ArrayOrEmpty(Get(parsedJson, "citations"))) > 0
  /\ result.notFound

\* C2: every chunk id in the citations or usedChunkIds of a returned result
\* is the id of a chunk of the evidence set, which holds only resolved prior
\* chunks and rows of the similarity search.
C2_OnlyEvidenceCited ==
  result.returned =>
    /\ \A v \in citedIds(result) : v.t = "str" /\ v.s \in ids(allChunks)
    /\ ids(allChunks) \subseteq ids(baseChunks) \cup ids(search.matches)

\* A found result for a document that also named a chunk outside the evidence.
C2_Witness ==
  /\ pc = "done" /\ parsed /\ ~result.notFound
  /\ \E v \in citedIds([citations |-> SelectSeq(ArrayOrEmpty(Get(parsedJson, "citations")),
                                                 LAMBDA c : c.t = "obj"),
                        used_chunk_ids |-> ArrayOrEmpty(Get(parsedJson, "used_chunk_ids"))]) :
       ~has(allowedChunkIds, v)

\* C3: once assembly has ended with an empty evidence set, the request can
\* only return the fixed not-found result, and the completion service is
\* never called.
C3_EmptyEvidenceShortCircuits ==
  (assembled /\ Len(allChunks) = 0) =>
    /\ calls.groq = 0 /\ completion = "none"
    /\ pc \in {"assembled", "done"}
    /\ pc = "assembled" => ENABLED ReturnNoEvidence
    /\ pc = "done" => result = notFoundResult(body.thread_id)

\* No prior ids, a similarity search that threw, and the not-found result.
C3_Witness ==
  /\ pc = "done"
  /\ body.context.last_chunk_ids = <<>>
  /\ search.match = "threw"
  /\ result = notFoundResult(body.thread_id)

\* C4: after a similarity search that threw or reported an error, the
\* evidence is exactly the prior chunks, the request fails only if the
\* completion stage fails, and what it returns is what the prior chunks
\* alone give.
C4_SearchFailureIsNoMatch ==
  search.match \in {"threw", "error"} =>
    /\ allChunks = mergeMatches(baseChunks, <<>>)
    /\ pc \in {"assembled", "completion", "done", "failed"}
    /\ pc = "failed" => completion \in {"rejected", "empty", "content"}
    /\ pc = "done" =>
         result = IF Len(baseChunks) = 0 \/ ~parsed
                  THEN notFoundResult(body.thread_id)
                  ELSE followupResult(parsedJson, baseChunks, body)

\* The search threw and the request still returned a found answer.
C4_Witness ==
  /\ pc = "done"
  /\ search.match = "threw"
  /\ ~result.notFound

\* C5: a completion text that is not JSON once the fences are stripped ends
\* the request with the fixed not-found result, no exception, and exactly one
\* call of the completion service.
C5_InvalidJsonIsNotFound ==
  (completion = "content" /\ ~JsonParses(stripPossibleCodeFences(raw))) =>
    /\ pc = "done"
    /\ result = notFoundResult(body.thread_id)
    /\ error = "none"
    /\ calls.groq = 1

\* A truncated JSON text inside a code fence.
C5_Witness ==
  /\ pc = "done"
  /\ raw = <<RawFenceJson, RawSpace, Truncated>>
  /\ result.notFound

\* C6: a completion text that parses to a value of the wrong shape ends the
\* request with the fixed not-found result and no exception.
C6_WrongShapeIsNotFound ==
  (parsed /\ wrongShape(parsedJson)) =>
    /\ pc = "done"
    /\ result = notFoundResult(body.thread_id)
    /\ error = "none"

\* C7: when the filtered citations or the filtered used ids are empty, the
\* returned result is the fixed not-found result, whatever the model's flag
\* and answer.
C7_UnsupportedIsNotFound ==
  (pc = "done" /\ parsed /\ (Len(filteredCitations) = 0 \/ Len(filteredUsedChunkIds) = 0)) =>
    result = notFoundResult(body.thread_id)

\* The model claimed an answer with a valid citation, but every used id it
\* listed is outside the evidence.
C7_Witness ==
  /\ pc = "done" /\ parsed
  /\ ~Truthy(Get(parsedJson, "notFound"))
  /\ Len(filteredCitations) > 0
  /\ Len(ArrayOrEmpty(Get(parsedJson, "used_chunk_ids"))) > 0
  /\ Len(filteredUsedChunkIds) = 0
  /\ result.notFound

\* C8: sanitising a returned result again, against the same evidence, gives
\* back its notFound, answer, citations and usedChunkIds.
C8_SanitizerIdempotent ==
  result.returned =>
    LET again == sanitize(asDocument(result), allowedChunkIds)
    IN /\ again.notFound = result.notFound
       /\ again.answer = result.answer
       /\ again.citations = result.citations
       /\ again.usedChunkIds = result.used_chunk_ids

\* A found result from which the sanitizer had removed a citation.
C8_Witness ==
  /\ pc = "done" /\ parsed /\ ~result.notFound
  /\ Len(result.citations) < Len(ArrayOrEmpty(Get(parsedJson, "citations")))

\* C9: a rejected completion request ends the request with an exception: no
\* result is returned and the service was called once.
C9_ServiceErrorIsFatal ==
  completion = "rejected" =>
    /\ pc = "failed"
    /\ error = "ServiceError"
    /\ ~result.returned
    /\ calls.groq = 1

\* The completion request was rejected.
C9_Witness ==
  /\ completion = "rejected"
  /\ pc = "failed"
  /\ Len(allChunks) > 0

\* C10: once the completion service has responded, with or without content,
\* the request ends with a result and no exception, and a response without
\* content gives the fixed not-found result.
C10_ResponseMeansResult ==
  /\ completion = "empty" =>
       pc = "done" /\ error = "none" /\ result = notFoundResult(body.thread_id)
  /\ completion = "content" =>
       pc = "done" /\ error = "none" /\ result.returned

\* C11: once the prior-chunk lookup has reported an error, the request has
\* thrown: no result, no embedding, no similarity search, no completion.
C11_StorageErrorIsFatal ==
  baseError =>
    /\ pc = "failed"
    /\ error = "Failed to load context chunks"
    /\ ~result.returned
    /\ calls.embed = 0 /\ calls.match_chunks = 0 /\ calls.groq = 0

\* The lookup of a prior id reported an error.
C11_Witness ==
  /\ baseError
  /\ pc = "failed"
  /\ body.context.last_chunk_ids = <<"c1">>

\* C12: a body the schema rejects, or a subject that is not the user's, never
\* gets past validation and the subject lookup: the request can only throw,
\* and no chunk lookup, embedding, similarity search or completion is made.
C12_InvalidRequestRejected ==
  (~followupSchema(body) \/ subjectOwner(body.subject_id) # userId) =>
    /\ pc \in {"validate", "subject", "failed"}
    /\ pc = "failed" => error \in {"ValidationError", "Subject not found for user"}
    /\ ~followupSchema(body) => pc # "subject" /\ calls.subjects = 0
    /\ ~result.returned
    /\ calls.chunks = 0 /\ calls.embed = 0 /\ calls.match_chunks = 0 /\ calls.groq = 0

\* A request with an empty question was rejected.
C12_Witness ==
  /\ pc = "failed"
  /\ body.question = <<>>
  /\ body.subject_id = "s1" /\ body.thread_id = "t1"
  /\ error = "ValidationError"

\* C13: every returned result carries the thread id of the request.
C13_ThreadIdEchoed ==
  result.returned => result.thread_id = body.thread_id

\* A found answer carrying the thread id.
C13_Witness ==
  /\ pc = "done"
  /\ ~result.notFound
  /\ result.thread_id = "t1"

\* text is a run of consecutive tokens of whole.
isSlice(text, whole) ==
  \E i \in 1..(Len(whole) - Len(text) + 1) :
    SubSeq(whole, i, i + Len(text) - 1) = text

\* C15: every supporting extract is a sentence of a chunk named in the
\* result's usedChunkIds, scores at least 1 against the question, and carries
\* that chunk's id, file name and page range.
C15_ExtractsTraceable ==
  result.returned =>
    \A k \in 1..Len(result.supporting_extracts) :
      LET e == result.supporting_extracts[k]
      IN /\ Str(e.chunk_id) \in SeqToSet(result.used_chunk_ids)
         /\ sentenceScore(e.text, qTokens(body.question)) >= 1
         /\ \E n \in 1..Len(allChunks) :
              /\ allChunks[n].id = e.chunk_id
              /\ isSlice(e.text, allChunks[n].content)
              /\ e.text \in SeqToSet(splitIntoSentences(allChunks[n].content))
              /\ e.citation = [file_name |-> allChunks[n].file_name,
                               page_range |-> allChunks[n].page_range]

\* Two chunks of evidence, one of them used, and extracts from it.
C15_Witness ==
  /\ pc = "done"
  /\ Len(allChunks) = 2
  /\ result.used_chunk_ids = <<Str("c1")>>
  /\ Len(result.supporting_extracts) > 0

\* C16: a returned result with notFound set has no supporting extracts.
C16_NotFoundHasNoExtracts ==
  (result.returned /\ result.notFound) => result.supporting_extracts = <<>>

\* The model reported not-found and yet listed valid citations and used ids.
C16_Witness ==
  /\ pc = "done" /\ parsed
  /\ Truthy(Get(parsedJson, "notFound"))
  /\ Len(filteredCitations) > 0
  /\ Len(filteredUsedChunkIds) > 0
  /\ result.notFound

\* C17 as claimed: an embedding failure makes the request throw.
C17_EmbedFailureIsFatal ==
  search.embed = "threw" =>
    /\ pc = "failed"
    /\ ~result.returned
    /\ calls.groq = 0

\* C17 amended: an embedding failure is swallowed like a failure of the
\* similarity search: the search is not called, the evidence is the prior
\* chunks, and the request fails only if the completion stage fails; a
\* lookup error and a rejected completion request stay fatal.
C17_EmbedFailureSwallowed ==
  /\ search.embed = "threw" =>
       /\ calls.match_chunks = 0
       /\ allChunks = baseChunks
       /\ pc \in {"assembled", "completion", "done", "failed"}
       /\ pc = "failed" => completion \in {"rejected", "empty", "content"}
       /\ pc = "done" =>
            result = IF Len(baseChunks) = 0 \/ ~parsed
                     THEN notFoundResult(body.thread_id)
                     ELSE followupResult(parsedJson, baseChunks, body)
  /\ (baseError \/ completion = "rejected") => pc = "failed"

\* The embedding threw and the request returned a found answer.
C17_Witness ==
  /\ pc = "done"
  /\ search.embed = "threw"
  /\ ~result.notFound

\* The two sentences of Scenario A.
photosynthesisSentence ==
  <<"Photosynthesis", " ", "converts", " ", "light", " ", "into", " ",
    "chemical", " ", "energy", ".">>

chlorophyllSentence == <<"Plants", " ", "use", " ", "chlorophyll", ".">>

\* Scenario A: the evidence is chunk c1 alone and the answer is found.
scenarioA ==
  /\ pc = "done"
  /\ ~result.notFound
  /\ allChunks = <<ChunkRecord("c1")>>
  /\ body.question = Question

\* C18 as claimed: the photosynthesis sentence scores strictly higher than
\* the chlorophyll sentence and is the first extract.
C18_PhotosynthesisScoresHigher ==
  scenarioA =>
    /\ sentenceScore(photosynthesisSentence, qTokens(body.question))
         > sentenceScore(chlorophyllSentence, qTokens(body.question))
    /\ result.supporting_extracts[1].text = photosynthesisSentence

\* C18 amended: both sentences score 1, and the photosynthesis sentence is
\* the first extract because it is the first found.
C18_PhotosynthesisFirstOnTie ==
  scenarioA =>
    /\ sentenceScore(photosynthesisSentence, qTokens(body.question)) = 1
    /\ sentenceScore(chlorophyllSentence, qTokens(body.question)) = 1
    /\ [k \in 1..Len(result.supporting_extracts) |-> result.supporting_extracts[k].text]
         = <<photosynthesisSentence, chlorophyllSentence>>

\* Scenario A with the model's answer citing c1.
C18_Witness ==
  /\ scenarioA
  /\ result.used_chunk_ids = <<Str("c1")>>
  /\ Len(result.citations) = 1

\* The document is a found answer whose citations and used ids are all
\* non-empty, all in the evidence, and whose used ids do not repeat.
passThroughCase ==
  /\ parsed
  /\ LET d == parsedJson
         cs == Get(d, "citations")
         us == Get(d, "used_chunk_ids")
     IN /\ Get(d, "notFound") = Bool(FALSE)
        /\ ~Nullish(Get(d, "answer"))
        /\ cs.t = "arr" /\ Len(cs.items) > 0
        /\ \A i \in 1..Len(cs.items) :
             cs.items[i].t = "obj" /\ has(allowedChunkIds, Get(cs.items[i], "chunk_id"))
        /\ us.t = "arr" /\ Len(us.items) > 0
        /\ \A i \in 1..Len(us.items) : has(allowedChunkIds, us.items[i])
        /\ \A i, j \in 1..Len(us.items) : us.items[i] = us.items[j] => i = j

\* C19: such a document passes the sanitizer unchanged: the result is found
\* and has the model's answer, its citations and its used ids, in order.
C19_PassThrough ==
  passThroughCase =>
    /\ pc = "done"
    /\ result.notFound = FALSE
    /\ result.answer = Get(parsedJson, "answer")
    /\ result.citations = Get(parsedJson, "citations").items
    /\ result.used_chunk_ids = Get(parsedJson, "used_chunk_ids").items

\* The used ids are listed in another order than the citations.
C19_Witness ==
  /\ passThroughCase
  /\ Get(parsedJson, "citations").items = <<Citation("c1"), Citation("c2")>>
  /\ result.used_chunk_ids = <<Str("c2"), Str("c1")>>

\* C20: the completion service is called at most once, only when assembly
\* has ended with evidence, and nothing is parsed or returned while the call
\* is pending; a request that returns with evidence has called it once.
C20_OneCompletionAfterAssembly ==
  /\ calls.groq <= 1
  /\ calls.groq = 1 =>
       /\ assembled /\ Len(allChunks) > 0
       /\ pc \in {"completion", "done", "failed"}
  /\ calls.groq = 0 => completion = "none" /\ raw = NoRaw
  /\ completion = "pending" => pc = "completion" /\ raw = NoRaw /\ ~result.returned
  /\ (pc = "assembled" /\ Len(allChunks) > 0) => ENABLED StartCompletion
  /\ (pc = "done" /\ Len(allChunks) > 0) => calls.groq = 1

\* A found answer after one call of the completion service.
C20_Witness ==
  /\ pc = "done"
  /\ calls.groq = 1
  /\ search.match = "ok"
  /\ ~result.notFound

\* The scoring sentences of the used chunks in the order they are found:
\* used chunk by used chunk, sentence by sentence.
discovered ==
  evidences(result.used_chunk_ids, allChunks, qTokens(body.question))

\* The place of the i-th sentence of the list d when the sentences are
\* ordered by descending score and, among equal scores, by discovery.
rank(d, i) ==
  1 + Cardinality({j \in 1..Len(d) :
                     \/ d[j].score > d[i].score
                     \/ d[j].score = d[i].score /\ j < i})

\* C14: the supporting extracts are the first min(8, n) of the n scoring
\* sentences ordered by descending score, equal scores in discovery order:
\* at most 8, with non-increasing scores.
C14_ExtractsRankedAndCapped ==
  (pc = "done" /\ ~result.notFound) =>
    LET out == result.supporting_extracts
        d == discovered
        q == qTokens(body.question)
    IN /\ Len(out) = Min(8, Len(d))
       /\ Len(out) <= 8
       /\ \A i \in 1..Len(d) :
            LET r == rank(d, i)
            IN r <= 8 =>
                 out[r] =
                   [text |-> d[i].text, chunk_id |-> d[i].chunk_id,
                    citation |-> [file_name |-> d[i].file_name,
                                  page_range |-> d[i].page_range]]
       /\ \A k \in 1..(Len(out) - 1) :
            sentenceScore(out[k].text, q) >= sentenceScore(out[k + 1].text, q)

\* More than 8 scoring sentences, two of them with equal scores found in
\* different chunks, and 8 extracts.
C14_Witness ==
  LET d == discovered
  IN /\ pc = "done" /\ ~result.notFound
     /\ Len(d) > 8
     /\ Len(result.supporting_extracts) = 8
     /\ \E i, j \in 1..Len(d) :
          /\ i < j
          /\ d[i].score = d[j].score
          /\ d[i].chunk_id # d[j].chunk_id
          /\ rank(d, j) <= 8

\* The parsed document lists no used ids: the key is absent, is not an
\* array, or is an empty array.
noUsedIdsSent ==
  parsed /\ ArrayOrEmpty(Get(parsedJson, "used_chunk_ids")) = <<>>

\* The chunk ids of the document's citations that name an evidence chunk, in
\* citation order.
validCitedIds ==
  LET valid == SelectSeq(ArrayOrEmpty(Get(parsedJson, "citations")),
                         LAMBDA c : c.t = "obj" /\ has(allowedChunkIds, Get(c, "chunk_id")))
  IN [i \in 1..Len(valid) |-> Get(valid[i], "chunk_id")]

\* Where x first occurs in xs.
firstIndex(xs, x) ==
  CHOOSE i \in 1..Len(xs) : xs[i] = x /\ \A j \in 1..(i - 1) : xs[j] # x

\* C21: when the document lists no used ids, reports a falsy notFound and
\* has a citation naming an evidence chunk, the returned result is found and
\* its usedChunkIds are the valid citations' chunk ids, each once, in the
\* order of their first citation.
C21_UsedIdsFromCitations ==
  (pc = "done" /\ noUsedIdsSent /\ ~Truthy(Get(parsedJson, "notFound"))
     /\ Len(validCitedIds) > 0) =>
    LET u == result.used_chunk_ids
    IN /\ ~result.notFound
       /\ SeqToSet(u) = SeqToSet(validCitedIds)
       /\ \A i, j \in 1..Len(u) :
            i < j => /\ u[i] # u[j]
                     /\ firstIndex(validCitedIds, u[i]) < firstIndex(validCitedIds, u[j])

\* The used_chunk_ids key is absent and the same evidence chunk is cited
\* twice.
C21_Witness ==
  /\ pc = "done" /\ parsed
  /\ Get(parsedJson, "used_chunk_ids") = Undefined
  /\ Get(parsedJson, "notFound") = Bool(FALSE)
  /\ validCitedIds = <<Str("c1"), Str("c1")>>
  /\ result.used_chunk_ids = <<Str("c1")>>

\* The rows of the similarity search that are pushed: those whose id is not
\* a prior chunk's and did not occur earlier among the rows.
newMatches ==
  LET m == search.matches
      keep == {i \in 1..Len(m) :
                 /\ m[i].id \notin ids(baseChunks)
                 /\ \A j \in 1..(i - 1) : m[j].id # m[i].id}
      nth(k) == CHOOSE i \in keep : Cardinality({j \in keep : j < i}) = k - 1
  IN [k \in 1..Cardinality(keep) |-> m[nth(k)]]

\* C22: the evidence set is the resolved prior chunks followed by the
\* search rows whose id is not yet present; no id occurs in it twice, and
\* each of its ids is one of the caller's last_chunk_ids or the id of a row
\* of the search.
C22_EvidenceMergedOnce ==
  /\ \A i, j \in 1..Len(allChunks) : allChunks[i].id = allChunks[j].id => i = j
  /\ ids(baseChunks) \subseteq SeqToSet(body.context.last_chunk_ids)
  /\ ids(allChunks) \subseteq
       SeqToSet(body.context.last_chunk_ids) \cup ids(search.matches)
  /\ assembled => allChunks = baseChunks \o newMatches

\* The caller repeated an id and the search returned one row twice; the
\* completion service was handed each chunk once.
C22_Witness ==
  /\ calls.groq = 1
  /\ body.context.last_chunk_ids = <<"c1", "c1">>
  /\ [i \in 1..Len(search.matches) |-> search.matches[i].id] = <<"c2", "c2">>
  /\ [i \in 1..Len(allChunks) |-> allChunks[i].id] = <<"c1", "c2">>

\* The caller's prior ids for which the lookup returned no row.
droppedIds ==
  {id \in SeqToSet(body.context.last_chunk_ids) : id \notin ids(baseChunks)}

\* C23: when the lookup returns rows for only some of the prior ids, the
\* request goes on: no lookup error is thrown, only the completion stage can
\* still fail, and an id without a row is neither in the evidence nor in a
\* returned result's citations or usedChunkIds unless the search returned it.
C23_UnresolvedIdDropped ==
  (calls.chunks = 1 /\ ~baseError /\ droppedIds # {}) =>
    /\ error # "Failed to load context chunks"
    /\ pc \in {"embed", "match", "assembled", "completion", "done", "failed"}
    /\ pc = "failed" => completion \in {"rejected", "empty", "content"}
    /\ \A id \in droppedIds :
         /\ id \in ids(allChunks) => id \in ids(search.matches)
         /\ (result.returned /\ Str(id) \in citedIds(result)) =>
              id \in ids(search.matches)

\* The caller named c3, which has no row under the subject; the document
\* cites c3 and c1, and the result is found on c1 alone.
C23_Witness ==
  /\ pc = "done" /\ parsed
  /\ body.context.last_chunk_ids = <<"c1", "c3">>
  /\ droppedIds = {"c3"}
  /\ Get(parsedJson, "used_chunk_ids") = Arr(<<Str("c3"), Str("c1")>>)
  /\ ~result.notFound
  /\ result.used_chunk_ids = <<Str("c1")>>

\* C24: when the parsed document reports a truthy notFound the returned
\* result is the fixed not-found result, whatever citations and used ids it
\* lists; a found result comes only from a document with a falsy notFound.
C24_NeverUpgraded ==
  /\ (pc = "done" /\ parsed /\ Truthy(Get(parsedJson, "notFound"))) =>
       result = notFoundResult(body.thread_id)
  /\ (result.returned /\ ~result.notFound) =>
       parsed /\ ~Truthy(Get(parsedJson, "notFound"))

\* The document reports notFound = true together with a valid citation and
\* a valid used id.
C24_Witness ==
  /\ pc = "done" /\ parsed
  /\ Get(parsedJson, "notFound") = Bool(TRUE)
  /\ validCitedIds = <<Str("c1")>>
  /\ Get(parsedJson, "used_chunk_ids") = Arr(<<Str("c1")>>)
  /\ result = notFoundResult(body.thread_id)

\* C27: while an utterance started by speak is being spoken, the speaking
\* flag is true.
C27_SpeakingWhileSpoken ==
  (synth.mounted /\ synth.current # 0) => synth.speaking

\* C25: as long as no question was submitted since the thread was last
\* reset, the thread state is empty; and without a thread id there are no
\* last chunk ids and no messages.
C25_ResetStaysEmpty ==
  /\ ~page.askedSinceReset =>
       /\ page.threadId = 0
       /\ page.messages = <<>>
       /\ page.lastChunkIds = <<>>
       /\ page.lastExtracts = <<>>
  /\ page.threadId = 0 => page.lastChunkIds = <<>> /\ page.messages = <<>>

\* C26: at most one Q&A request is in flight.
C26_OneRequestInFlight ==
  Cardinality(page.inflight) <= 1

====
